---- MODULE Spec2Model ----
(***************************************************************************)
(* Model of src/src/main.rs (water-me): the VecMap frontier structure and   *)
(* the growth loop of make_image.  Rust arrays are 0-based; a Location      *)
(* [row, col] is the tuple <<row, col>> and a Color [r, g, b] the tuple     *)
(* <<r, g, b>>.  Option values are sequences: None is <<>>, Some(v) is      *)
(* <<v>>.  A HashMap is a function whose DOMAIN is its key set.             *)
(***************************************************************************)
EXTENDS Integers, Sequences, FiniteSets, TLC

\* ------------------------------------------------------------------ bounds
\* Number of neighbour pushes after which every coin flip of the model's
\* random stream comes out above 0.5.
MaxPushes == 3
\* Largest distance the stand-alone diffusion is computed for.
MaxDistance == 12

\* ------------------------------------------------------- program constants
\* Largest value of a u8 colour channel.
U8Max == 255

VARIABLES
    size, num_seeds, max, long, halving, smoothing, fuzz,   \* parameters of make_image
    locations_to_colors,    \* the Finalized Grid (HashMap<Location, Color>)
    boundary,               \* the Frontier Set (VecMap): [vec, map]
    seeded,                 \* iterations of the seeding loop done so far
    count,                  \* the loop counter `count`
    pc,                     \* position in make_image
    location, color, steps, \* the entry popped by the current iteration
    dir,                    \* index of the direction the expansion is at
    seeds,                  \* history: the <<location, color>> drawn per seed
    ret,                    \* history: value returned by the last insert / rand_remove
    override,               \* history: the current pop took the `< fuzz` branch
    order,                  \* history: pending keys, oldest insertion first
    pushes,                 \* history: calls of insert_modify made so far
    c1, c2, avg, mavg,      \* one channel blend: inputs, result at commit, result at merge
    amplitude, child        \* one diffusion: the amplitude and the child colour

vars == <<size, num_seeds, max, long, halving, smoothing, fuzz,
          locations_to_colors, boundary, seeded, count, pc,
          location, color, steps, dir, seeds, ret, override, order, pushes,
          c1, c2, avg, mavg, amplitude, child>>

params == <<size, num_seeds, max, long, halving, smoothing, fuzz>>
popped == <<location, color, steps>>
blendvars == <<c1, c2, avg, mavg, amplitude, child>>

\* ----------------------------------------------------------------- helpers
None == <<>>
Some(v) == <<v>>

EmptyMap == [k \in {} |-> k]
MapPut(m, k, v) == [x \in (DOMAIN m) \cup {k} |-> IF x = k THEN v ELSE m[x]]
MapRemove(m, k) == [x \in (DOMAIN m) \ {k} |-> m[x]]

Last(s) == s[Len(s)]
Front(s) == SubSeq(s, 1, Len(s) - 1)
Range(s) == {s[i] : i \in 1..Len(s)}
Without(s, k) == SelectSeq(s, LAMBDA x : x # k)

\* c1 & c2 on 8-bit values, bit by bit.
RECURSIVE BitAnd(_, _)
BitAnd(a, b) ==
    IF a = 0 \/ b = 0 THEN 0
    ELSE (a % 2) * (b % 2) + 2 * BitAnd(a \div 2, b \div 2)

\* ------------------------------------------------------------------ VecMap
VecMapNew == [vec |-> <<>>, map |-> EmptyMap]

\* insert without the `old_value.is_none()` test: the key is always pushed.
insert_always_push(self, key, value) ==
    LET old_value == IF key \in DOMAIN self.map THEN Some(self.map[key]) ELSE None
    IN  [self |-> [vec |-> Append(self.vec, key),
                   map |-> MapPut(self.map, key, value)],
         ret  |-> old_value]

\* insert that keeps the stored value of a present key (entry().or_insert).
insert_keep_old(self, key, value) ==
    LET old_value == IF key \in DOMAIN self.map THEN Some(self.map[key]) ELSE None
    IN  [self |-> [vec |-> IF old_value = None THEN Append(self.vec, key) ELSE self.vec,
                   map |-> IF old_value = None THEN MapPut(self.map, key, value)
                           ELSE self.map],
         ret  |-> old_value]

\* HashMap::insert stores the value and returns the previous one.
insert(self, key, value) ==
    LET old_value == IF key \in DOMAIN self.map THEN Some(self.map[key]) ELSE None
    IN  [self |-> [vec |-> IF old_value = None THEN Append(self.vec, key) ELSE self.vec,
                   map |-> MapPut(self.map, key, value)],
         ret  |-> old_value]

\* The assert_eq! of is_empty.
is_empty_assert(self) == (Len(self.vec) = 0) = (DOMAIN self.map = {})
is_empty(self) == Len(self.vec) = 0

\* Vec::swap_remove at 0-based index i.
swap_remove(vec, i) ==
    IF i = Len(vec) - 1 THEN Front(vec)
    ELSE Front([vec EXCEPT ![i + 1] = Last(vec)])

\* rand_remove with the `self.map.remove(&key)` replaced by a lookup.
rand_remove_keep_map(self, drawn, below) ==
    LET index == IF below THEN Len(self.vec) - 1 ELSE drawn
        key   == self.vec[index + 1]
    IN  [self |-> [vec |-> swap_remove(self.vec, index),
                   map |-> self.map],
         ret  |-> IF key \in DOMAIN self.map THEN Some(<<key, self.map[key]>>) ELSE None]

\* drawn is the gen_range(0..len) draw, below is the outcome of gen() < fuzz.
rand_remove(self, drawn, below) ==
    LET index == IF below THEN Len(self.vec) - 1 ELSE drawn
        key   == self.vec[index + 1]
    IN  [self |-> [vec |-> swap_remove(self.vec, index),
                   map |-> MapRemove(self.map, key)],
         ret  |-> IF key \in DOMAIN self.map THEN Some(<<key, self.map[key]>>) ELSE None]

\* An insert_modify that pushes the key again when it is present.
insert_modify_push_again(self, key, value, modify) ==
    IF key \in DOMAIN self.map
    THEN [vec |-> Append(self.vec, key), map |-> [self.map EXCEPT ![key] = modify[@]]]
    ELSE [vec |-> Append(self.vec, key), map |-> MapPut(self.map, key, value)]

\* The closure `modify` is a function from the stored value to its replacement.
insert_modify(self, key, value, modify) ==
    IF key \in DOMAIN self.map
    THEN [vec |-> self.vec, map |-> [self.map EXCEPT ![key] = modify[@]]]
    ELSE [vec |-> Append(self.vec, key), map |-> MapPut(self.map, key, value)]

\* -------------------------------------------------------------- make_image
\* The blend without its `c1 & c2 & 1` term.
CommitBlendNoCarry(a, b) == (a \div 2) + (b \div 2)

\* One channel of the blend at commit: c1 / 2 + c2 / 2 + (c1 & c2 & 1).  The
\* value is the plain integer sum; it is the u8 result as long as it is <= 255.
CommitBlend(a, b) == (a \div 2) + (b \div 2) + BitAnd(BitAnd(a, b), 1)

\* A commit that overwrites the colour of a revisited location.
CommitOverwrite(grid, loc, col) == MapPut(grid, loc, col)

\* A commit that drops the entry of a revisited location instead of blending it.
CommitDrop(grid, loc, col) ==
    IF loc \in DOMAIN grid
    THEN MapRemove(grid, loc)
    ELSE MapPut(grid, loc, col)

\* entry(location).and_modify(|c| c.zip(color).map(blend)).or_insert(color)
Commit(grid, loc, col) ==
    IF loc \in DOMAIN grid
    THEN [grid EXCEPT ![loc] = <<CommitBlend(@[1], col[1]),
                                 CommitBlend(@[2], col[2]),
                                 CommitBlend(@[3], col[3])>>]
    ELSE MapPut(grid, loc, col)

Directions == << <<-1, 0>>, <<0, -1>>, <<1, 0>>, <<0, 1>> >>
\* A neighbour step whose vertical moves also move sideways.
MaybeNewLocationDiagonal(loc, d) ==
    <<loc[1] + Directions[d][1], loc[2] + Directions[d][2] + Directions[d][1]>>
MaybeNewLocation(loc, d) == <<loc[1] + Directions[d][1], loc[2] + Directions[d][2]>>
InBounds(l, s) == l[1] >= 0 /\ l[1] < s /\ l[2] >= 0 /\ l[2] < s

\* A gate that lets every finalized neighbour through.
FoundEmptyAlways(grid, new_location, smooth, s) == TRUE

\* The gate with its offset range one too wide on both sides.
FoundEmptyWide(grid, new_location, smooth, s) ==
    \E off \in (-smooth - 1)..(smooth + 1) :
        \E d \in {<<0, off>>, <<off, 0>>, <<off, off>>, <<-off, off>>} :
            LET nr == d[1] + new_location[1]
                nc == d[2] + new_location[2]
            IN  /\ ~(nr < 0 \/ nr >= s \/ nc < 0 \/ nc >= s)
                /\ <<nr, nc>> \notin DOMAIN grid

\* The value of found_empty after the two nested loops of the smoothing gate.
FoundEmpty(grid, new_location, smooth, s) ==
    \E off \in (-smooth)..smooth :
        \E d \in {<<0, off>>, <<off, 0>>, <<off, off>>, <<-off, off>>} :
            LET nr == d[1] + new_location[1]
                nc == d[2] + new_location[2]
            IN  /\ ~(nr < 0 \/ nr >= s \/ nc < 0 \/ nc >= s)
                /\ <<nr, nc>> \notin DOMAIN grid

\* clamp with the upper limit forgotten.
ClampLow(x) == IF x < 0 THEN 0 ELSE x

\* (c + off).clamp(0, 255)
Clamp(x) == IF x < 0 THEN 0 ELSE IF x > U8Max THEN U8Max ELSE x
NewColor(col, off) == <<Clamp(col[1] + off[1]), Clamp(col[2] + off[2]), Clamp(col[3] + off[3])>>

\* One channel of the blend in the merge closure (the same expression again).
MergeBlend(a, b) == (a \div 2) + (b \div 2) + BitAnd(BitAnd(a, b), 1)

\* A merge that averages without the `+ 1` of the pushed distance.
MergeNoPlusOne(old, new_color, st) ==
    << <<MergeBlend(old[1][1], new_color[1]),
         MergeBlend(old[1][2], new_color[2]),
         MergeBlend(old[1][3], new_color[3])>>,
       (old[2] + st) \div 2 >>

\* The closure passed to insert_modify.
Merge(old, new_color, st) ==
    << <<MergeBlend(old[1][1], new_color[1]),
         MergeBlend(old[1][2], new_color[2]),
         MergeBlend(old[1][3], new_color[3])>>,
       (old[2] + st + 1) \div 2 >>

\* ---------------------------------------------------------------- diffusion
RECURSIVE Pow2(_)
Pow2(n) == IF n = 0 THEN 1 ELSE 2 * Pow2(n - 1)

\* floor(A * A / 2^r) for 0 < r, computed without leaving 32 bits (A <= 65025).
FloorSqDiv(A, r) ==
    LET u == A \div Pow2(r)
        v == A % Pow2(r)
    IN  Pow2(r) * u * u + 2 * u * v + ((v * v) \div Pow2(r))

\* n <= a * 2^(-d/h), i.e. n^h * 2^d <= a^h, for 0 <= n, a <= 255 and h in {1, 2, 4}.
ScaledLeq(n, a, d, h) ==
    LET q == d \div h
        r == d % h
        m == n * Pow2(q)
    IN  IF n = 0 THEN TRUE
        ELSE IF q > 8 THEN FALSE
        ELSE IF m > a THEN FALSE
        ELSE IF r = 0 THEN TRUE
        ELSE IF h = 2 THEN m * m * Pow2(r) <= a * a
        ELSE /\ m * m <= 46340
             /\ (m * m) * (m * m) <= FloorSqDiv(a * a, r)

RECURSIVE Largest(_, _, _, _, _)
Largest(lo, hi, a, d, h) ==
    IF lo >= hi THEN lo
    ELSE LET mid == (lo + hi + 1) \div 2
         IN  IF ScaledLeq(mid, a, d, h) THEN Largest(mid, hi, a, d, h)
             ELSE Largest(lo, mid - 1, a, d, h)

\* The amplitude without its `+ long as f64` term.
DiffusionNoLong(mx, lg, h, st) == Largest(0, mx - lg, mx - lg, st, h)

\* ((max - long) as f64 * 2^(-steps / halving) + long as f64) as i16
Diffusion(mx, lg, h, st) == lg + Largest(0, mx - lg, mx - lg, st, h)

\* -------------------------------------------------------- the random stream
\* Every draw of the generator is a choice from a small set of its range.
SeedCoords(s) == {x \in {0, 1} : x < s}
SeedColors == {<<200, 50, 255>>, <<255, 1, 0>>}
\* gen::<f64>() in tenths; fuzz is in tenths too.
UnitDraws == {0, 9}
\* The three gen_range(-diffusion..=diffusion) draws.
Offsets(d) == {<<-d, 0, d>>, <<d, -d, 0>>}

\* ---------------------------------------------------------- configurations
Configs == {
    [size |-> 1, num_seeds |-> 1, max |-> 255, long |-> 6, halving |-> 4, smoothing |-> 4, fuzz |-> 8],
    [size |-> 3, num_seeds |-> 2, max |-> 255, long |-> 6, halving |-> 4, smoothing |-> 1, fuzz |-> 8],
    [size |-> 4, num_seeds |-> 1, max |-> 255, long |-> 6, halving |-> 4, smoothing |-> 0, fuzz |-> 10],
    [size |-> 4, num_seeds |-> 1, max |-> 255, long |-> 6, halving |-> 4, smoothing |-> 1, fuzz |-> 8],
    [size |-> 4, num_seeds |-> 2, max |-> 40, long |-> 40, halving |-> 2, smoothing |-> 0, fuzz |-> 10]
}

InitConfig(cfg) ==
    /\ size = cfg.size
    /\ num_seeds = cfg.num_seeds
    /\ max = cfg.max
    /\ long = cfg.long
    /\ halving = cfg.halving
    /\ smoothing = cfg.smoothing
    /\ fuzz = cfg.fuzz

\* The state after lines 75-77 of make_image.
InitRun ==
    /\ locations_to_colors = EmptyMap
    /\ boundary = VecMapNew
    /\ seeded = 0
    /\ count = 0
    /\ pc = "seed"
    /\ location = <<0, 0>>
    /\ color = <<0, 0, 0>>
    /\ steps = 0
    /\ dir = 0
    /\ seeds = <<>>
    /\ ret = None
    /\ override = FALSE
    /\ order = <<>>
    /\ pushes = 0

Init ==
    /\ \E cfg \in Configs : InitConfig(cfg)
    /\ InitRun
    /\ c1 = 0 /\ c2 = 0 /\ avg = 0 /\ mavg = 0
    /\ amplitude = 0 /\ child = <<0, 0, 0>>

\* ----------------------------------------------------------------- seeding
\* One iteration of `for _ in 0..num_seeds`.
Seed ==
    /\ pc = "seed"
    /\ seeded < num_seeds
    /\ \E row \in SeedCoords(size), col \in SeedCoords(size), col0 \in SeedColors :
         LET r == insert(boundary, <<row, col>>, <<col0, 0>>)
         IN  /\ boundary' = r.self
             /\ ret' = r.ret
             /\ seeds' = Append(seeds, <<<<row, col>>, col0>>)
             /\ order' = IF r.ret = None THEN Append(order, <<row, col>>) ELSE order
    /\ seeded' = seeded + 1
    /\ UNCHANGED <<params, locations_to_colors, count, pc, popped, dir, override, pushes, blendvars>>

\* The seeding loop is over; `let mut count = 0`.
StartLoop ==
    /\ pc = "seed"
    /\ seeded = num_seeds
    /\ pc' = "loop"
    /\ count' = 0
    /\ UNCHANGED <<params, locations_to_colors, boundary, seeded, popped, dir,
                   seeds, ret, override, order, pushes, blendvars>>

\* --------------------------------------------------------------- main loop
\* count % ((size * size) / 10) with a zero divisor panics.
ProgressPanic ==
    /\ pc = "loop"
    /\ (size * size) \div 10 = 0
    /\ pc' = "abort"
    /\ UNCHANGED <<params, locations_to_colors, boundary, seeded, count, popped, dir,
                   seeds, ret, override, order, pushes, blendvars>>

\* The frontier is empty: `break`.
Break ==
    /\ pc = "loop"
    /\ (size * size) \div 10 # 0
    /\ is_empty(boundary)
    /\ count' = count + 1
    /\ pc' = IF is_empty_assert(boundary) THEN "done" ELSE "abort"
    /\ UNCHANGED <<params, locations_to_colors, boundary, seeded, popped, dir,
                   seeds, ret, override, order, pushes, blendvars>>

\* rand_remove, `expect`, and the commit into locations_to_colors.
Pop ==
    /\ pc = "loop"
    /\ (size * size) \div 10 # 0
    /\ ~is_empty(boundary)
    /\ count' = count + 1
    /\ IF ~is_empty_assert(boundary)
       THEN /\ pc' = "abort"
            /\ UNCHANGED <<locations_to_colors, boundary, popped, dir, ret, override, order>>
       ELSE \E drawn \in 0..(Len(boundary.vec) - 1), u \in UnitDraws :
              LET r == rand_remove(boundary, drawn, u < fuzz)
              IN  /\ boundary' = r.self
                  /\ ret' = r.ret
                  /\ override' = (u < fuzz)
                  /\ order' = Without(order, boundary.vec[(IF u < fuzz THEN Len(boundary.vec) - 1 ELSE drawn) + 1])
                  /\ IF r.ret = None
                     THEN /\ pc' = "abort"
                          /\ UNCHANGED <<locations_to_colors, popped, dir>>
                     ELSE /\ location' = r.ret[1][1]
                          /\ color' = r.ret[1][2][1]
                          /\ steps' = r.ret[1][2][2]
                          /\ locations_to_colors' =
                                Commit(locations_to_colors, r.ret[1][1], r.ret[1][2][1])
                          /\ dir' = 1
                          /\ pc' = "expand"
    /\ UNCHANGED <<params, seeded, seeds, pushes, blendvars>>

\* What every branch of the direction loop does last: go to the next
\* direction, or leave the iteration (its locals go out of scope).
NextDirection ==
    IF dir < Len(Directions)
    THEN /\ dir' = dir + 1
         /\ UNCHANGED <<pc, popped, ret, override>>
    ELSE /\ dir' = 0
         /\ pc' = "loop"
         /\ location' = <<0, 0>>
         /\ color' = <<0, 0, 0>>
         /\ steps' = 0
         /\ ret' = None
         /\ override' = FALSE

\* rng.gen::<f64>() > 0.5: `continue`.
ExpandSkip ==
    /\ pc = "expand"
    /\ NextDirection
    /\ UNCHANGED <<params, locations_to_colors, boundary, seeded, count, seeds, order, pushes, blendvars>>

\* The neighbour is off the canvas: `continue`.
ExpandOutside ==
    /\ pc = "expand"
    /\ ~InBounds(MaybeNewLocation(location, dir), size)
    /\ NextDirection
    /\ UNCHANGED <<params, locations_to_colors, boundary, seeded, count, seeds, order, pushes, blendvars>>

\* The neighbour is finalized and the smoothing gate finds no empty cell: `continue`.
ExpandSaturated ==
    /\ pc = "expand"
    /\ InBounds(MaybeNewLocation(location, dir), size)
    /\ MaybeNewLocation(location, dir) \in DOMAIN locations_to_colors
    /\ ~FoundEmpty(locations_to_colors, MaybeNewLocation(location, dir), smoothing, size)
    /\ NextDirection
    /\ UNCHANGED <<params, locations_to_colors, boundary, seeded, count, seeds, order, pushes, blendvars>>

\* The neighbour is pushed: diffusion, offset, clamp, insert_modify.
ExpandPush ==
    /\ pc = "expand"
    /\ pushes < MaxPushes
    /\ pushes' = pushes + 1
    /\ LET new_location == MaybeNewLocation(location, dir)
           diffusion == Diffusion(max, long, halving, steps)
       IN  /\ InBounds(new_location, size)
           /\ \/ new_location \notin DOMAIN locations_to_colors
              \/ FoundEmpty(locations_to_colors, new_location, smoothing, size)
           /\ \E color_offset \in Offsets(diffusion) :
                LET new_color == NewColor(color, color_offset)
                IN  /\ boundary' = insert_modify(boundary, new_location,
                                       <<new_color, steps + 1>>,
                                       [old \in {boundary.map[k] : k \in DOMAIN boundary.map}
                                            |-> Merge(old, new_color, steps)])
                    /\ order' = IF new_location \in DOMAIN boundary.map
                                THEN order ELSE Append(order, new_location)
    /\ NextDirection
    /\ UNCHANGED <<params, locations_to_colors, seeded, count, seeds, blendvars>>

Next ==
    \/ Seed
    \/ StartLoop
    \/ ProgressPanic
    \/ Break
    \/ Pop
    \/ ExpandSkip
    \/ ExpandOutside
    \/ ExpandSaturated
    \/ ExpandPush

Spec == Init /\ [][Next]_vars

\* The loop is sequential code: a step that can be taken is taken.
FairSpec == Spec /\ WF_vars(Next)

\* ------------------------------------------------- the blend on its own
\* Every pair of channel values, blended once by each of the two copies.
InitBlend ==
    /\ InitConfig(CHOOSE cfg \in Configs : cfg.size = 4 /\ cfg.smoothing = 1)
    /\ locations_to_colors = EmptyMap
    /\ boundary = VecMapNew
    /\ seeded = 0
    /\ count = 0
    /\ pc = "blend"
    /\ location = <<0, 0>>
    /\ color = <<0, 0, 0>>
    /\ steps = 0
    /\ dir = 0
    /\ seeds = <<>>
    /\ ret = None
    /\ override = FALSE
    /\ order = <<>>
    /\ pushes = 0
    /\ c1 \in 0..U8Max
    /\ c2 \in 0..U8Max
    /\ avg = 0
    /\ mavg = 0
    /\ amplitude = 0
    /\ child = <<0, 0, 0>>

BlendStep ==
    /\ pc = "blend"
    /\ avg' = CommitBlend(c1, c2)
    /\ mavg' = MergeBlend(c1, c2)
    /\ pc' = "blended"
    /\ UNCHANGED <<params, locations_to_colors, boundary, seeded, count, popped, dir,
                   seeds, ret, override, order, pushes, c1, c2, amplitude, child>>

NextBlend == BlendStep

SpecBlend == InitBlend /\ [][NextBlend]_vars

\* ------------------------------------------------- the VecMap on its own
\* The Frontier Set driven through its interface by any caller: pc names the
\* call that returned last.  insert_modify is given the closure of make_image.
ApiPcs == {"api", "insert", "insert_modify", "rand_remove"}
ApiKeys == {<<0, 0>>, <<0, 1>>}
ApiValues == {<<col, 0>> : col \in SeedColors}

InitVecMap ==
    /\ InitConfig(CHOOSE cfg \in Configs : cfg.size = 4 /\ cfg.smoothing = 1)
    /\ locations_to_colors = EmptyMap
    /\ boundary = VecMapNew
    /\ seeded = 0
    /\ count = 0
    /\ pc = "api"
    /\ location = <<0, 0>>
    /\ color = <<0, 0, 0>>
    /\ steps = 0
    /\ dir = 0
    /\ seeds = <<>>
    /\ ret = None
    /\ override = FALSE
    /\ order = <<>>
    /\ pushes = 0
    /\ c1 = 0 /\ c2 = 0 /\ avg = 0 /\ mavg = 0
    /\ amplitude = 0 /\ child = <<0, 0, 0>>

ApiInsert ==
    /\ pc \in ApiPcs
    /\ \E key \in ApiKeys, value \in ApiValues :
         LET r == insert(boundary, key, value)
         IN  /\ boundary' = r.self
             /\ ret' = r.ret
             /\ order' = IF r.ret = None THEN Append(order, key) ELSE order
    /\ pc' = "insert"
    /\ override' = FALSE
    /\ UNCHANGED <<params, locations_to_colors, seeded, count, popped, dir, seeds,
                   pushes, blendvars>>

ApiInsertModify ==
    /\ pc \in ApiPcs
    /\ pushes < MaxPushes
    /\ pushes' = pushes + 1
    /\ \E key \in ApiKeys, value \in ApiValues :
         /\ boundary' = insert_modify(boundary, key, <<value[1], value[2] + 1>>,
                            [old \in {boundary.map[k] : k \in DOMAIN boundary.map}
                                 |-> Merge(old, value[1], value[2])])
         /\ order' = IF key \in DOMAIN boundary.map THEN order ELSE Append(order, key)
    /\ pc' = "insert_modify"
    /\ ret' = None
    /\ override' = FALSE
    /\ UNCHANGED <<params, locations_to_colors, seeded, count, popped, dir, seeds,
                   blendvars>>

\* gen_range(0..0) panics ("cannot sample empty range") before anything else.
ApiRandRemove ==
    /\ pc \in ApiPcs
    /\ IF Len(boundary.vec) = 0
       THEN /\ pc' = "abort"
            /\ UNCHANGED <<boundary, ret, override, order>>
       ELSE \E drawn \in 0..(Len(boundary.vec) - 1), u \in UnitDraws :
              LET r == rand_remove(boundary, drawn, u < fuzz)
              IN  /\ boundary' = r.self
                  /\ ret' = r.ret
                  /\ override' = (u < fuzz)
                  /\ order' = Without(order, boundary.vec[(IF u < fuzz THEN Len(boundary.vec) - 1 ELSE drawn) + 1])
                  /\ pc' = "rand_remove"
    /\ UNCHANGED <<params, locations_to_colors, seeded, count, popped, dir, seeds,
                   pushes, blendvars>>

NextVecMap ==
    \/ ApiInsert
    \/ ApiInsertModify
    \/ ApiRandRemove

SpecVecMap == InitVecMap /\ [][NextVecMap]_vars

\* --------------------------------------------- the diffusion on its own
\* Lines 135-146 for one popped colour: amplitudes (max, long), halving
\* distances and distances from bounded sets.
Amplitudes == {<<255, 6>>, <<255, 0>>, <<46, 6>>, <<40, 40>>}
Halvings == {1, 2, 4}

InitDiffusion ==
    /\ size = 4 /\ num_seeds = 1 /\ smoothing = 1 /\ fuzz = 8
    /\ \E a \in Amplitudes : max = a[1] /\ long = a[2]
    /\ halving \in Halvings
    /\ locations_to_colors = EmptyMap
    /\ boundary = VecMapNew
    /\ seeded = 0
    /\ count = 0
    /\ pc = "diffuse"
    /\ location = <<0, 0>>
    /\ color \in SeedColors
    /\ steps \in 0..MaxDistance
    /\ dir = 0
    /\ seeds = <<>>
    /\ ret = None
    /\ override = FALSE
    /\ order = <<>>
    /\ pushes = 0
    /\ c1 = 0 /\ c2 = 0 /\ avg = 0 /\ mavg = 0
    /\ amplitude = 0
    /\ child = <<0, 0, 0>>

DiffuseStep ==
    /\ pc = "diffuse"
    /\ amplitude' = Diffusion(max, long, halving, steps)
    /\ \E color_offset \in Offsets(Diffusion(max, long, halving, steps)) :
         child' = NewColor(color, color_offset)
    /\ pc' = "diffused"
    /\ UNCHANGED <<params, locations_to_colors, boundary, seeded, count, popped, dir,
                   seeds, ret, override, order, pushes, c1, c2, avg, mavg>>

NextDiffusion == DiffuseStep

SpecDiffusion == InitDiffusion /\ [][NextDiffusion]_vars

\* ------------------------------------------------ the end of a run
\* The main loop from late states of a run on a 4 x 4 canvas with
\* max = long = 0 (every offset is 0, every colour is the seed's): the cells
\* of Snake have been popped in this order, each one pushing only its
\* successor (the coin flips skipped the other directions).
Snake == << <<0, 0>>, <<0, 1>>, <<0, 2>>, <<0, 3>>,
            <<1, 3>>, <<1, 2>>, <<1, 1>>, <<1, 0>>,
            <<2, 0>>, <<2, 1>>, <<2, 2>>, <<2, 3>>,
            <<3, 3>>, <<3, 2>>, <<3, 1>>, <<3, 0>> >>
SnakePopped == {13, 14, 15}

InitFull ==
    /\ size = 4 /\ num_seeds = 1 /\ max = 0 /\ long = 0 /\ halving = 4 /\ fuzz = 8
    /\ smoothing \in {0, 1, 4}
    /\ \E n \in SnakePopped, col0 \in SeedColors :
         /\ locations_to_colors = [k \in {Snake[i] : i \in 1..n} |-> col0]
         /\ boundary = [vec |-> <<Snake[n + 1]>>, map |-> MapPut(EmptyMap, Snake[n + 1], <<col0, n>>)]
         /\ count = n
         /\ seeds = << <<Snake[1], col0>> >>
         /\ order = <<Snake[n + 1]>>
    /\ seeded = 1
    /\ pc = "loop"
    /\ location = <<0, 0>>
    /\ color = <<0, 0, 0>>
    /\ steps = 0
    /\ dir = 0
    /\ ret = None
    /\ override = FALSE
    /\ pushes = 0
    /\ c1 = 0 /\ c2 = 0 /\ avg = 0 /\ mavg = 0
    /\ amplitude = 0 /\ child = <<0, 0, 0>>

NextFull ==
    \/ Break
    \/ Pop
    \/ ExpandSkip
    \/ ExpandOutside
    \/ ExpandSaturated
    \/ ExpandPush

SpecFull == InitFull /\ [][NextFull]_vars

\* Runs from their start together with the ends of runs.
SpecRuns == (Init \/ InitFull) /\ [][Next]_vars

\* ------------------------------------------- two seeds, random pops
\* Runs on a 4 x 4 canvas with two seeds and max = long = 0, where entries
\* are popped at random positions, so that a seed can be popped while a
\* neighbour pushed by the other seed is pending.
InitSeeds ==
    /\ size = 4 /\ num_seeds = 2 /\ max = 0 /\ long = 0 /\ halving = 4 /\ fuzz = 8
    /\ smoothing = 1
    /\ InitRun
    /\ c1 = 0 /\ c2 = 0 /\ avg = 0 /\ mavg = 0
    /\ amplitude = 0 /\ child = <<0, 0, 0>>

NextSeeds ==
    \/ Seed
    \/ StartLoop
    \/ NextFull

SpecSeeds == InitSeeds /\ [][NextSeeds]_vars

\* ================================================================== claims

\* C1: the order sequence of the Frontier Set holds exactly the keys of its
\* keyed entries, each exactly once: equal counts, no location twice in the
\* sequence, no key in one structure only; so the assertion of is_empty holds.
FrontierInvariant ==
    /\ Len(boundary.vec) = Cardinality(DOMAIN boundary.map)
    /\ \A i, j \in 1..Len(boundary.vec) : boundary.vec[i] = boundary.vec[j] => i = j
    /\ Range(boundary.vec) = DOMAIN boundary.map
    /\ is_empty_assert(boundary)

\* Seeding, insert_modify (new and merged keys) and rand_remove have all acted.
FrontierInvariantWitness ==
    /\ pc = "loop"
    /\ count >= 2
    /\ pushes >= 3
    /\ Len(boundary.vec) >= 2
    /\ \E k \in DOMAIN boundary.map : boundary.map[k][2] # 0 /\ k \in DOMAIN locations_to_colors

\* C2: the main loop terminates: the frontier empties and the loop breaks.
Termination == <>(pc = "done")

\* C3: under a valid configuration no step of make_image aborts.
NoAbort == pc # "abort"

\* C4: the set of finalized locations only grows: no step removes a location,
\* a step adds at most one, only the step that starts an iteration (and
\* increments count) changes it, and it never has more than size * size entries.
MonotonicCoverage ==
    /\ [](Cardinality(DOMAIN locations_to_colors) <= size * size)
    /\ [][/\ DOMAIN locations_to_colors \subseteq DOMAIN locations_to_colors'
          /\ Cardinality(DOMAIN locations_to_colors')
                <= Cardinality(DOMAIN locations_to_colors) + 1
          /\ count' = count => DOMAIN locations_to_colors' = DOMAIN locations_to_colors]_vars

\* An iteration has committed a location that was finalized already.
MonotonicCoverageWitness ==
    /\ pc = "expand"
    /\ count = 3
    /\ Cardinality(DOMAIN locations_to_colors) = 2

\* C5: every finalized and every pending location is on the canvas and every
\* channel of every committed or pending colour is in 0..255.
Bounds ==
    /\ \A l \in DOMAIN locations_to_colors :
          /\ 0 <= l[1] /\ l[1] < size /\ 0 <= l[2] /\ l[2] < size
          /\ \A i \in 1..3 : locations_to_colors[l][i] \in 0..255
    /\ \A l \in (DOMAIN boundary.map) \cup Range(boundary.vec) :
          0 <= l[1] /\ l[1] < size /\ 0 <= l[2] /\ l[2] < size
    /\ \A l \in DOMAIN boundary.map :
          \A i \in 1..3 : boundary.map[l][1][i] \in 0..255

\* A pushed colour was clamped at both ends, next to the edge of the canvas,
\* and a colour clamped at both ends was committed.
BoundsWitness ==
    /\ \E l \in DOMAIN boundary.map :
          /\ boundary.map[l][2] >= 1
          /\ boundary.map[l][1][1] = 0
          /\ boundary.map[l][1][3] = 255
          /\ (l[1] = 0 \/ l[2] = 0)
    /\ \E l \in DOMAIN locations_to_colors :
          /\ l # seeds[1][1]
          /\ locations_to_colors[l][1] = 0
          /\ locations_to_colors[l][3] = 255

\* C7: both copies of the blend give floor((c1 + c2) / 2), which is at most
\* 255, the same with the arguments swapped, and c for blend(c, c);
\* blend(200, 50) = 125 and blend(255, 1) = 128.
BlendFormula ==
    pc = "blended" =>
        /\ avg = (c1 + c2) \div 2
        /\ mavg = (c1 + c2) \div 2
        /\ avg <= 255
        /\ CommitBlend(c2, c1) = avg
        /\ MergeBlend(c2, c1) = mavg
        /\ (c1 = c2 => avg = c1 /\ mavg = c1)
        /\ (c1 = 200 /\ c2 = 50 => avg = 125 /\ mavg = 125)
        /\ (c1 = 255 /\ c2 = 1 => avg = 128 /\ mavg = 128)

\* 255 and 1, two odd values, have been blended.
BlendFormulaWitness ==
    /\ pc = "blended"
    /\ c1 = 255
    /\ c2 = 1
    /\ avg = 128

\* C8 as stated: with one seed, the colour of the seed location when the loop
\* has ended is the colour drawn for the seed.
SeedColorKept ==
    (num_seeds = 1 /\ pc = "done") =>
        locations_to_colors[seeds[1][1]] = seeds[1][2]

\* C8 amended: with one seed and smoothing = 0, the colour of the seed
\* location, from its commit on and when the loop has ended, is the colour
\* drawn for the seed.
SeedColorKeptNoSmoothing ==
    (num_seeds = 1 /\ smoothing = 0 /\ Len(seeds) = 1
        /\ seeds[1][1] \in DOMAIN locations_to_colors) =>
        locations_to_colors[seeds[1][1]] = seeds[1][2]

\* The loop has ended after the seed's neighbours were popped in their turn.
SeedColorKeptWitness ==
    /\ num_seeds = 1
    /\ smoothing = 0
    /\ pc = "done"
    /\ Cardinality(DOMAIN locations_to_colors) >= 3

\* The seeding step that inserts a location which is pending already.
InsertPresent ==
    /\ pc = "seed"
    /\ seeded' = seeded + 1
    /\ Last(seeds')[1] \in DOMAIN boundary.map

\* C9 as stated: insert on a present location returns Some(old_state) and
\* leaves the stored state and the order sequence as they were.
InsertKeepsOld ==
    [][InsertPresent =>
        /\ ret' = Some(boundary.map[Last(seeds')[1]])
        /\ boundary'.map[Last(seeds')[1]] = boundary.map[Last(seeds')[1]]
        /\ boundary'.vec = boundary.vec]_vars

\* C9 amended: insert on a present location returns Some(old_state), stores
\* the new state for that location in place of the old one, and leaves the
\* other entries and the order sequence as they were.
InsertOverwrites ==
    [][InsertPresent =>
        /\ ret' = Some(boundary.map[Last(seeds')[1]])
        /\ boundary'.map = [boundary.map EXCEPT ![Last(seeds')[1]] = <<Last(seeds')[2], 0>>]
        /\ boundary'.vec = boundary.vec]_vars

\* Two seeds of different colours landed on one cell: the first colour was
\* returned and the second is the one pending.
InsertOverwritesWitness ==
    /\ pc = "seed"
    /\ Len(seeds) = 2
    /\ seeds[1][1] = seeds[2][1]
    /\ seeds[1][2] # seeds[2][2]
    /\ ret = Some(<<seeds[1][2], 0>>)
    /\ boundary.map[seeds[2][1]] = <<seeds[2][2], 0>>
    /\ Len(boundary.vec) = 1

\* C10: a pop that takes the override branch removes the pending entry that
\* was inserted last.
RecencyBias ==
    [][(pc = "loop" /\ pc' = "expand" /\ override') => location' = Last(order)]_vars

\* C11: rand_remove on an empty Frontier Set returns None without aborting;
\* on a non-empty one it returns Some((location, state)) of an entry that was
\* present, removes that location from the order sequence and from the keyed
\* entries, and leaves the state of every other entry as it was.
RemoveRandomContract ==
    [][(pc \in ApiPcs /\ pc' \in {"rand_remove", "abort"}) =>
        IF Len(boundary.vec) = 0
        THEN pc' = "rand_remove" /\ ret' = None /\ boundary' = boundary
        ELSE /\ pc' = "rand_remove"
             /\ \E k \in DOMAIN boundary.map :
                  /\ ret' = Some(<<k, boundary.map[k]>>)
                  /\ Range(boundary'.vec) = Range(boundary.vec) \ {k}
                  /\ Len(boundary'.vec) = Len(boundary.vec) - 1
                  /\ boundary'.map = MapRemove(boundary.map, k)]_vars

\* C12 as stated: no location is pending in the Frontier Set and present in
\* the Finalized Grid at the same time.
FrontierNotFinalized ==
    (DOMAIN boundary.map) \cap (DOMAIN locations_to_colors) = {}

\* C12 amended: with smoothing = 0 no location is pending in the Frontier Set
\* and present in the Finalized Grid at the same time.
FrontierNotFinalizedNoSmoothing ==
    smoothing = 0 =>
        ((DOMAIN boundary.map) \cup Range(boundary.vec)) \cap (DOMAIN locations_to_colors) = {}

\* With smoothing = 0, cells are finalized and others are pending.
FrontierNotFinalizedWitness ==
    /\ smoothing = 0
    /\ pc = "loop"
    /\ Cardinality(DOMAIN locations_to_colors) >= 2
    /\ Len(boundary.vec) >= 2

\* (int)((255 - 6) * 2^(-d / 4) + 6) for d = 0..12, computed in floating point.
Reference255_6_4 == <<255, 215, 182, 154, 130, 110, 94, 80, 68, 58, 50, 43, 37>>

Abs(x) == IF x < 0 THEN -x ELSE x

\* C13: the amplitude at distance d is trunc((max - long) * 2^(-d/halving) +
\* long): it lies in [long, max], is max at d = 0, does not grow with d, is 130
\* for max = 255, long = 6, halving = 4, d = 4, and every channel of the child
\* colour is within the amplitude of the parent's channel.
DiffusionDecay ==
    pc = "diffused" =>
        LET n == amplitude - long
            a == max - long
            p == Pow2(steps)
        IN  /\ long <= amplitude /\ amplitude <= max
            /\ steps = 0 => amplitude = max
            /\ Diffusion(max, long, halving, steps + 1) <= amplitude
            /\ halving = 1 => n * p <= a /\ a < (n + 1) * p
            /\ halving = 2 => n * n * p <= a * a /\ a * a < (n + 1) * (n + 1) * p
            /\ (halving = 4 /\ a <= 40 /\ steps <= 9) =>
                  /\ n * n * n * n * p <= a * a * a * a
                  /\ a * a * a * a < (n + 1) * (n + 1) * (n + 1) * (n + 1) * p
            /\ (max = 255 /\ long = 6 /\ halving = 4 /\ steps <= 12) =>
                  amplitude = Reference255_6_4[steps + 1]
            /\ (max = 255 /\ long = 6 /\ halving = 4 /\ steps = 4) => amplitude = 130
            /\ \A i \in 1..3 : Abs(child[i] - color[i]) <= amplitude

\* The amplitude 130 of the spec's example has been computed and applied.
DiffusionDecayWitness ==
    /\ pc = "diffused"
    /\ max = 255 /\ long = 6 /\ halving = 4 /\ steps = 4
    /\ amplitude = 130
    /\ \E i \in 1..3 : Abs(child[i] - color[i]) = 130

\* A main-loop iteration pops and commits in the step from "loop" to "expand".
PopStep == pc = "loop" /\ pc' = "expand"

\* C14: an iteration changes the grid only at the popped location: a location
\* without a colour gets the popped colour, a location with one gets the
\* channel-wise average of the old and the popped colour; no other location
\* changes, and no step of the expansion writes the grid.
CommitRule ==
    [][/\ PopStep =>
            /\ DOMAIN locations_to_colors' = DOMAIN locations_to_colors \cup {location'}
            /\ \A k \in DOMAIN locations_to_colors \ {location'} :
                 locations_to_colors'[k] = locations_to_colors[k]
            /\ locations_to_colors'[location'] =
                 IF location' \in DOMAIN locations_to_colors
                 THEN [i \in 1..3 |-> (locations_to_colors[location'][i] + color'[i]) \div 2]
                 ELSE color'
       /\ ~PopStep => locations_to_colors' = locations_to_colors]_vars

\* A revisited location has just been committed: its colour is a blend, not
\* the popped colour, and an expansion step is about to run.
CommitRuleWitness ==
    /\ pc = "expand"
    /\ dir = 1
    /\ Cardinality(DOMAIN locations_to_colors) >= 2
    /\ locations_to_colors[location] # color

\* The cells at offsets (0,k), (k,0), (k,k), (-k,k) from l, k in -sm..sm.
GatePattern(l, sm) ==
    UNION {{<<l[1], l[2] + k>>, <<l[1] + k, l[2]>>, <<l[1] + k, l[2] + k>>, <<l[1] - k, l[2] + k>>} :
           k \in (0 - sm)..sm}

OnCanvas(l) == l[1] \in 0..(size - 1) /\ l[2] \in 0..(size - 1)

\* The frontier entries a step has added or changed.
Touched ==
    {k \in DOMAIN boundary'.map :
        k \notin DOMAIN boundary.map \/ boundary'.map[k] # boundary.map[k]}

\* C15: a finalized neighbour is inserted or merged only if a cell of its
\* pattern on the canvas is not finalized; once every location is finalized
\* no step inserts or merges an entry and every pop makes the frontier
\* strictly smaller.
SmoothingGate ==
    [][/\ \A k \in Touched :
            k \in DOMAIN locations_to_colors =>
                \E g \in GatePattern(k, smoothing) :
                    OnCanvas(g) /\ g \notin DOMAIN locations_to_colors
       /\ (pushes' # pushes /\ MaybeNewLocation(location, dir) \in DOMAIN locations_to_colors) =>
            \E g \in GatePattern(MaybeNewLocation(location, dir), smoothing) :
                OnCanvas(g) /\ g \notin DOMAIN locations_to_colors
       /\ Cardinality(DOMAIN locations_to_colors) = size * size =>
            /\ Touched = {}
            /\ pushes' = pushes
            /\ Len(boundary'.vec) <= Len(boundary.vec)
            /\ count' # count => Len(boundary'.vec) < Len(boundary.vec) \/ Len(boundary.vec) = 0
      ]_vars

\* An entry has been popped after every location was finalized, and before
\* that a finalized neighbour went through the gate.
SmoothingGateWitness ==
    /\ pc = "expand"
    /\ Cardinality(DOMAIN locations_to_colors) = size * size
    /\ count > size * size
    /\ pushes >= 2

Min2(a, b) == IF a < b THEN a ELSE b
Max2(a, b) == IF a < b THEN b ELSE a

\* The child colours the expansion of the popped cell can draw.
ChildColors == {NewColor(color, off) : off \in Offsets(Diffusion(max, long, halving, steps))}

\* C16: pushing (neighbour, new_color, d + 1): a neighbour that is not pending
\* is appended to the order sequence with the entry (new_color, d + 1); for a
\* pending neighbour the order sequence is unchanged, its colour becomes the
\* channel-wise average of the old colour and new_color, and its distance
\* becomes floor((old_distance + d + 1) / 2), between the smaller and the
\* larger of old_distance and d + 1.  No other entry changes.
InsertMerge ==
    [][(pc = "expand" /\ pushes' = pushes + 1) =>
          LET nl == MaybeNewLocation(location, dir)
          IN  /\ DOMAIN boundary'.map = DOMAIN boundary.map \cup {nl}
              /\ \A k \in DOMAIN boundary.map \ {nl} : boundary'.map[k] = boundary.map[k]
              /\ IF nl \notin DOMAIN boundary.map
                 THEN /\ boundary'.vec = Append(boundary.vec, nl)
                      /\ boundary'.map[nl][1] \in ChildColors
                      /\ boundary'.map[nl][2] = steps + 1
                 ELSE LET old == boundary.map[nl]
                      IN  /\ boundary'.vec = boundary.vec
                          /\ \E nc \in ChildColors :
                               boundary'.map[nl][1] = [i \in 1..3 |-> (old[1][i] + nc[i]) \div 2]
                          /\ boundary'.map[nl][2] = (old[2] + steps + 1) \div 2
                          /\ boundary'.map[nl][2] >= Min2(old[2], steps + 1)
                          /\ boundary'.map[nl][2] <= Max2(old[2], steps + 1)
      ]_vars

\* A push has merged into a pending entry: fewer entries are pending than
\* were seeded and pushed and not yet popped.
InsertMergeWitness ==
    /\ pc \in {"loop", "expand"}
    /\ pushes >= 1
    /\ Len(boundary.vec) + count < Cardinality({seeds[i][1] : i \in DOMAIN seeds}) + pushes

Canvas == (0..(size - 1)) \X (0..(size - 1))

\* C17: with smoothing = 0 the frontier and the grid are disjoint, every pop
\* has finalized a new location (the grid holds as many locations as entries
\* were popped, at most size * size), and the colour committed is the popped
\* colour, never a blend.
NoSmoothingCommitOnce ==
    smoothing = 0 =>
        /\ (DOMAIN boundary.map) \cap (DOMAIN locations_to_colors) = {}
        /\ DOMAIN locations_to_colors \subseteq Canvas
        /\ pc \in {"loop", "expand"} => Cardinality(DOMAIN locations_to_colors) = count
        /\ pc = "done" => Cardinality(DOMAIN locations_to_colors) = count - 1
        /\ pc \in {"loop", "expand"} => count <= size * size
        /\ pc = "expand" => locations_to_colors[location] = color
        /\ (pc = "loop" /\ count = size * size) => Len(boundary.vec) = 0

\* With smoothing = 0 every location has been popped once and the loop is over.
NoSmoothingCommitOnceWitness ==
    /\ smoothing = 0
    /\ pc = "done"
    /\ DOMAIN locations_to_colors = Canvas
    /\ count = size * size + 1

SeedLocations == {seeds[i][1] : i \in DOMAIN seeds}

\* C18: a pending location leaves the frontier only in the pop that commits
\* it, a finalized location stays finalized, every seeded location is pending
\* or finalized, and when the loop has ended the frontier is empty and the
\* grid is non-empty and holds every seed location.
PendingUntilCommitted ==
    /\ [][/\ \A k \in DOMAIN boundary.map :
               \/ k \in DOMAIN boundary'.map
               \/ PopStep /\ k = location' /\ k \in DOMAIN locations_to_colors'
          /\ \A k \in DOMAIN locations_to_colors : k \in DOMAIN locations_to_colors'
         ]_vars
    /\ [](SeedLocations \subseteq (DOMAIN boundary.map) \cup (DOMAIN locations_to_colors))
    /\ [](pc = "done" =>
            /\ DOMAIN boundary.map = {}
            /\ boundary.vec = <<>>
            /\ num_seeds >= 1 => locations_to_colors # EmptyMap
            /\ SeedLocations \subseteq DOMAIN locations_to_colors)

\* The loop has ended after two seeds and a pushed neighbour were committed.
PendingUntilCommittedWitness ==
    /\ pc = "done"
    /\ Cardinality(SeedLocations) = 2
    /\ pushes >= 1
    /\ Cardinality(DOMAIN locations_to_colors) >= 3

Manhattan(a, b) == Abs(a[1] - b[1]) + Abs(a[2] - b[2])
Adjacent(a, b) == Manhattan(a, b) = 1

\* The locations of G joined to R by 4-adjacent steps inside G.
RECURSIVE Joined(_, _)
Joined(R, G) ==
    LET N == {g \in G \ R : \E r \in R : Adjacent(g, r)}
    IN  IF N = {} THEN R ELSE Joined(R \cup N, G)

\* C19: every finalized location is joined to a seed location by a path of
\* 4-adjacent finalized locations, and every pending location is a seed
\* location or 4-adjacent to a finalized location.
ConnectedGrowth ==
    LET G == DOMAIN locations_to_colors
    IN  /\ G \subseteq Joined(G \cap SeedLocations, G)
        /\ \A k \in DOMAIN boundary.map :
             k \in SeedLocations \/ \E g \in G : Adjacent(k, g)

\* Two seeds apart from each other, both finalized, and a pending location
\* that is no seed location.
ConnectedGrowthWitness ==
    /\ Cardinality(SeedLocations) = 2
    /\ \A a \in SeedLocations, b \in SeedLocations : ~Adjacent(a, b)
    /\ SeedLocations \subseteq DOMAIN locations_to_colors
    /\ Cardinality(DOMAIN locations_to_colors) >= 3
    /\ \E k \in DOMAIN boundary.map : k \notin SeedLocations

NearestSeed(k) ==
    CHOOSE m \in {Manhattan(k, s) : s \in SeedLocations} :
        \A s \in SeedLocations : m <= Manhattan(k, s)

\* C20: the distance stored for a pending location is at least the Manhattan
\* distance from it to the nearest seed location.
DistanceLowerBound ==
    \A k \in DOMAIN boundary.map : boundary.map[k][2] >= NearestSeed(k)

\* A neighbour pushed by one seed has been merged with the push of the other
\* seed, popped at distance 0, and is pending at distance 1.
DistanceLowerBoundWitness ==
    /\ pc \in {"loop", "expand"}
    /\ Cardinality(SeedLocations) = 2
    /\ pushes = 2
    /\ count = 2
    /\ Len(boundary.vec) = 1
    /\ boundary.map[boundary.vec[1]][2] = 1
    /\ \A s \in SeedLocations : Adjacent(s, boundary.vec[1])

====
